---- MODULE Spec2Model ----
(***************************************************************************)
(* Data-quality validation engine of the real-time analytics platform:     *)
(* EventSchema.validate (src/src/quality/schema.py) and the validators     *)
(* SchemaValidator, RangeValidator, NullabilityValidator, AnomalyDetector  *)
(* and DataValidator (src/src/quality/validators.py), and the outcome      *)
(* counters of KafkaEventProducer (src/src/producers/event_producer.py).   *)
(*                                                                         *)
(* Python values are cells [t, s, n]: t is the Python type name ("absent"  *)
(* for a key the mapping does not hold), s the text of a str, n the number *)
(* of an int or bool.  A float is a double on the grid                     *)
(*     PriceBase + n * ulp,   PriceBase = 999999.99,  ulp = 2^-33,         *)
(* where n is the cell's number: all these doubles lie in one binade, so   *)
(* their differences are exact and the only rounding is that of the mean.  *)
(***************************************************************************)
EXTENDS Integers, Sequences, FiniteSets

VARIABLES
    window_size,         \* AnomalyDetector.window_size (deque maxlen)
    value_history,       \* AnomalyDetector.value_history, oldest first
    schema_failures,     \* SchemaValidator.failure_count
    range_failures,      \* RangeValidator.failure_count
    null_failures,       \* NullabilityValidator.failure_count
    anomaly_failures,    \* AnomalyDetector.failure_count
    validation_results,  \* DataValidator.validation_results
    reported,            \* metrics sink: reason -> record_validation_failure calls
    event,               \* argument of the last call (record or fed value)
    ret,                 \* what the last call returned
    verdict,             \* what the last standalone validator call returned
    fed,                 \* every value passed to detect so far, in order
    inputs,              \* the two doubles a detector driver feeds
    calls,               \* number of calls made so far
    raised,              \* whether the last call ended in an exception
    summary,             \* what the last get_summary call returned
    threads,             \* concurrent validate calls: position and locals
    metrics,             \* KafkaEventProducer.metrics
    producer             \* the producer's configuration, its Kafka client and last call

vars == <<window_size, value_history, schema_failures, range_failures,
          null_failures, anomaly_failures, validation_results, reported,
          event, ret, verdict, fed, inputs, calls, raised, summary, threads,
          metrics, producer>>

(***************************************************************************)
(* Python values                                                           *)
(***************************************************************************)
Absent == [t |-> "absent", s |-> "", n |-> 0]
PyNone == [t |-> "NoneType", s |-> "", n |-> 0]
PyStr(x) == [t |-> "str", s |-> x, n |-> 0]
PyInt(x) == [t |-> "int", s |-> "", n |-> x]
PyBool(x) == [t |-> "bool", s |-> "", n |-> IF x THEN 1 ELSE 0]
PyFloat(k) == [t |-> "float", s |-> "", n |-> k]
PyDict == [t |-> "dict", s |-> "", n |-> 0]
PyList == [t |-> "list", s |-> "", n |-> 0]

\* isinstance(value, cls): bool is a subclass of int.
IsInstance(c, cls) == c.t = cls \/ (cls = "int" /\ c.t = "bool")

\* isinstance(value, (int, float))
IsNumeric(c) == IsInstance(c, "int") \/ IsInstance(c, "float")

\* field in event
Has(e, f) == e[f].t # "absent"

(***************************************************************************)
(* Strings of the model and the str operations the code applies to them    *)
(***************************************************************************)
TimestampZ == "2024-01-01T00:00:00Z"
TimestampOffset == "2024-01-01T00:00:00+00:00"

\* str.strip(): of the model's strings only " " has surrounding whitespace.
Strip(x) == IF x = " " THEN "" ELSE x

\* Mutant: a blank string is taken to hold a dash.
ContainsDashOrBlank(x) == Strip(x) = "" \/ x \in {"US-CA", "-", TimestampZ, TimestampOffset}

\* '-' in x
ContainsDash(x) == x \in {"US-CA", "-", TimestampZ, TimestampOffset}

\* x.replace('Z', '+00:00'): of the model's strings only TimestampZ holds a 'Z'.
ReplaceZ(x) == IF x = TimestampZ THEN TimestampOffset ELSE x

\* datetime.fromisoformat(x) returns (does not raise ValueError)
FromIsoFormat(x) == x \in {TimestampOffset}

(***************************************************************************)
(* EventSchema                                                             *)
(***************************************************************************)
REQUIRED_FIELDS == <<"event_id", "event_type", "user_id", "timestamp",
                     "session_id", "properties", "device", "geo_location">>

FieldType(f) ==
    CASE f = "user_id" -> "int"
      [] f = "properties" -> "dict"
      [] OTHER -> "str"

VALID_EVENT_TYPES == {"page_view", "click", "add_to_cart", "purchase",
                      "user_login", "user_logout", "search", "video_play",
                      "video_complete", "wishlist_add", "review_submit",
                      "checkout_start", "checkout_complete"}
VALID_DEVICE_TYPES == {"mobile", "desktop", "tablet"}
VALID_SOURCES == {"organic", "paid", "direct", "referral"}

\* An error message: its wording (kind), the field name its text holds and
\* the value or type name it interpolates.
Msg(kind, f, detail) == [kind |-> kind, field |-> f, detail |-> detail]

\* f"{value}" of a str, None, a bool, an empty list or an empty dict.
Format(c) ==
    CASE c.t = "str" -> c.s
      [] c.t = "NoneType" -> "None"
      [] c.t = "bool" -> (IF c.n = 1 THEN "True" ELSE "False")
      [] c.t = "list" -> "[]"
      [] OTHER -> "{}"

\* x in <list of str>: a value that is no str equals none of them.
InList(c, L) == c.t = "str" /\ c.s \in L

\* Mutant: a missing field is treated as a field of the wrong type.
RECURSIVE RequiredLoopTypesOnly(_, _)
RequiredLoopTypesOnly(e, i) ==
    IF i > Len(REQUIRED_FIELDS) THEN <<>>
    ELSE LET f == REQUIRED_FIELDS[i] IN
         IF ~IsInstance(e[f], FieldType(f))
         THEN <<Msg("Invalid type", f, e[f].t)>>
         ELSE RequiredLoopTypesOnly(e, i + 1)

\* The loop over REQUIRED_FIELDS from position i: the message of the first
\* field that is missing or of the wrong type, <<>> when the loop completes.
RECURSIVE RequiredLoop(_, _)
RequiredLoop(e, i) ==
    IF i > Len(REQUIRED_FIELDS) THEN <<>>
    ELSE LET f == REQUIRED_FIELDS[i] IN
         IF ~Has(e, f) THEN <<Msg("Missing required field", f, "")>>
         ELSE IF ~IsInstance(e[f], FieldType(f))
              THEN <<Msg("Invalid type", f, e[f].t)>>
              ELSE RequiredLoop(e, i + 1)

\* Mutant: zero is accepted as a user_id.
UserIdNegative(c) == c.n < 0

\* event['user_id'] <= 0
UserIdNotPositive(c) == c.n <= 0

\* Mutant: the device is checked before the event_type.
ValueChecksDeviceFirst(e) ==
    IF ~InList(e.device, VALID_DEVICE_TYPES)
    THEN [ok |-> FALSE, error |-> <<Msg("Invalid device", "device", e.device.s)>>]
    ELSE IF ~InList(e.event_type, VALID_EVENT_TYPES)
    THEN [ok |-> FALSE, error |-> <<Msg("Invalid event_type", "event_type", e.event_type.s)>>]
    ELSE IF ~IsInstance(e.geo_location, "str") \/ ~ContainsDash(e.geo_location.s)
    THEN [ok |-> FALSE,
          error |-> <<Msg("Invalid geo_location format", "geo_location", e.geo_location.s)>>]
    ELSE IF Has(e, "source") /\ ~InList(e.source, VALID_SOURCES)
    THEN [ok |-> FALSE, error |-> <<Msg("Invalid source", "source", Format(e.source))>>]
    ELSE IF ~FromIsoFormat(ReplaceZ(e.timestamp.s))
    THEN [ok |-> FALSE,
          error |-> <<Msg("Invalid timestamp format", "timestamp", e.timestamp.s)>>]
    ELSE IF e.user_id.n <= 0
    THEN [ok |-> FALSE, error |-> <<Msg("user_id must be positive", "user_id", "")>>]
    ELSE [ok |-> TRUE, error |-> <<>>]

\* The checks on the values, made once every required field is present and
\* of its type: ok with <<>> when all pass, else the first failure's message.
ValueChecks(e) ==
    IF ~InList(e.event_type, VALID_EVENT_TYPES)
    THEN [ok |-> FALSE, error |-> <<Msg("Invalid event_type", "event_type", e.event_type.s)>>]
    ELSE IF ~InList(e.device, VALID_DEVICE_TYPES)
    THEN [ok |-> FALSE, error |-> <<Msg("Invalid device", "device", e.device.s)>>]
    ELSE IF ~IsInstance(e.geo_location, "str") \/ ~ContainsDash(e.geo_location.s)
    THEN [ok |-> FALSE,
          error |-> <<Msg("Invalid geo_location format", "geo_location", e.geo_location.s)>>]
    ELSE IF Has(e, "source") /\ ~InList(e.source, VALID_SOURCES)
    THEN [ok |-> FALSE, error |-> <<Msg("Invalid source", "source", Format(e.source))>>]
    ELSE IF ~FromIsoFormat(ReplaceZ(e.timestamp.s))
    THEN [ok |-> FALSE,
          error |-> <<Msg("Invalid timestamp format", "timestamp", e.timestamp.s)>>]
    ELSE IF UserIdNotPositive(e.user_id)
    THEN [ok |-> FALSE, error |-> <<Msg("user_id must be positive", "user_id", "")>>]
    ELSE [ok |-> TRUE, error |-> <<>>]

\* EventSchema.validate: (is_valid, error_message); error is <<>> for None.
EventSchemaValidate(e) ==
    LET req == RequiredLoop(e, 1) IN
    IF req # <<>> THEN [ok |-> FALSE, error |-> req]
    ELSE ValueChecks(e)

(***************************************************************************)
(* ValidationResult and the metrics sink                                   *)
(***************************************************************************)
\* ValidationResult: error_message <<>> is None, else the messages joined.
ValidationResult(valid, name, errors, warns) ==
    [is_valid |-> valid, validator_name |-> name,
     error_message |-> errors, warnings |-> warns]

Reasons == {"schema_violation", "out_of_range", "null_value", "anomaly_detected"}

\* record_validation_failure(validator, reason), k times
Record(rep, reason, k) == [rep EXCEPT ![reason] = @ + k]

(***************************************************************************)
(* SchemaValidator                                                         *)
(***************************************************************************)
\* Mutant: the failure is recorded but the result is reported as valid.
SchemaValidatorPasses(e) ==
    LET r == EventSchemaValidate(e) IN
    [result |-> ValidationResult(TRUE, "schema_validator", r.error, <<>>),
     failed |-> FALSE]

\* SchemaValidator.validate: the result, and whether the failure branch ran.
SchemaValidatorValidate(e) ==
    LET r == EventSchemaValidate(e) IN
    [result |-> ValidationResult(r.ok, "schema_validator", r.error, <<>>),
     failed |-> ~r.ok]

(***************************************************************************)
(* RangeValidator                                                          *)
(***************************************************************************)
RANGE_FIELDS == <<"user_id", "price", "quantity", "discount">>

\* constraints['min'] <= value.  Every grid double is above every minimum.
AtLeastMin(f, c) ==
    IF c.t = "float" THEN TRUE
    ELSE CASE f = "user_id" -> c.n >= 1
           [] f = "price" -> c.n >= 1            \* 0.01 <= n, n an integer
           [] f = "quantity" -> c.n >= 1
           [] OTHER -> c.n >= 0

\* value <= constraints['max'].  A grid double is PriceBase + n ulp, and
\* PriceBase is the double of the literal 999999.99.
AtMostMax(f, c) ==
    IF c.t = "float"
    THEN CASE f = "user_id" -> TRUE
           [] f = "price" -> c.n <= 0
           [] OTHER -> FALSE
    ELSE CASE f = "user_id" -> c.n \div 100000 <= 99999   \* n <= 9999999999
           [] f = "price" -> c.n <= 999999       \* n <= 999999.99, n an integer
           [] f = "quantity" -> c.n <= 1000
           [] OTHER -> c.n <= 100

OutOfRange(f, c) == IsNumeric(c) /\ ~(AtLeastMin(f, c) /\ AtMostMax(f, c))

\* Mutant: the loop stops at the first out-of-range item.
RECURSIVE RangeLoopFirstOnly(_, _, _)
RangeLoopFirstOnly(m, wording, i) ==
    IF i > Len(RANGE_FIELDS) THEN <<>>
    ELSE LET f == RANGE_FIELDS[i] IN
         IF OutOfRange(f, m[f]) THEN <<Msg(wording, f, "")>>
         ELSE RangeLoopFirstOnly(m, wording, i + 1)

\* One loop over the items of a mapping m, in the order of RANGE_FIELDS:
\* the warnings of the out-of-range items from position i on.
RECURSIVE RangeLoop(_, _, _)
RangeLoop(m, wording, i) ==
    IF i > Len(RANGE_FIELDS) THEN <<>>
    ELSE LET f == RANGE_FIELDS[i] IN
         (IF OutOfRange(f, m[f]) THEN <<Msg(wording, f, "")>> ELSE <<>>)
         \o RangeLoop(m, wording, i + 1)

\* Mutant: every warning is reported, those of properties too.
RangeValidatorReportsAll(e) ==
    LET top == RangeLoop(e, "Field out of range", 1)
        sub == IF Has(e, "properties") /\ IsInstance(e.properties, "dict")
               THEN RangeLoop(e.props, "Property out of range", 1)
               ELSE <<>>
        warns == top \o sub
    IN [result |-> ValidationResult(warns = <<>>, "range_validator", <<>>, warns),
        reports |-> Len(warns), event |-> e]

\* Mutant: an out-of-range top-level quantity or discount is removed from
\* the record once it has been warned about.
RangeValidatorDropsField(e) ==
    LET top == RangeLoop(e, "Field out of range", 1)
        sub == IF Has(e, "properties") /\ IsInstance(e.properties, "dict")
               THEN RangeLoop(e.props, "Property out of range", 1)
               ELSE <<>>
        warns == top \o sub
    IN [result |-> ValidationResult(warns = <<>>, "range_validator", <<>>, warns),
        reports |-> Len(top),
        event |-> [e EXCEPT
                     !.quantity = IF OutOfRange("quantity", @) THEN Absent ELSE @,
                     !.discount = IF OutOfRange("discount", @) THEN Absent ELSE @]]

\* RangeValidator.validate: the result, the number of reports made (one per
\* top-level violation, none for properties) and the record as the call
\* leaves it (the code only reads it).
RangeValidatorValidate(e) ==
    LET top == RangeLoop(e, "Field out of range", 1)
        sub == IF Has(e, "properties") /\ IsInstance(e.properties, "dict")
               THEN RangeLoop(e.props, "Property out of range", 1)
               ELSE <<>>
        warns == top \o sub
    IN [result |-> ValidationResult(warns = <<>>, "range_validator", <<>>, warns),
        reports |-> Len(top), event |-> e]

\* A standalone call of RangeValidator.validate.
RangeValidatorCall(e) ==
    LET rv == RangeValidatorValidate(e) IN
    /\ event' = rv.event
    /\ verdict' = rv.result
    /\ range_failures' = range_failures + (IF rv.result.is_valid THEN 0 ELSE 1)
    /\ reported' = Record(reported, "out_of_range", rv.reports)
    /\ calls' = calls + 1
    /\ UNCHANGED <<window_size, value_history, schema_failures, null_failures,
                   anomaly_failures, validation_results, ret, fed, inputs,
                   summary, threads, metrics,
                   producer>>
    /\ raised' = FALSE

(***************************************************************************)
(* NullabilityValidator                                                    *)
(***************************************************************************)
REQUIRED_NON_NULL == <<"event_id", "event_type", "user_id", "timestamp",
                       "device", "geo_location">>

\* Mutant: the test for blank strings is left out.
IsNull(c) == c.t = "NoneType"

\* value is None or (isinstance(value, str) and value.strip() == '')
IsNullOrEmpty(c) == c.t = "NoneType" \/ (IsInstance(c, "str") /\ Strip(c.s) = "")

RECURSIVE NullErrors(_, _)
NullErrors(e, i) ==
    IF i > Len(REQUIRED_NON_NULL) THEN <<>>
    ELSE LET f == REQUIRED_NON_NULL[i] IN
         (IF ~Has(e, f) THEN <<Msg("Missing required field", f, "")>>
          ELSE IF IsNullOrEmpty(e[f])
               THEN <<Msg("Required field is null/empty", f, "")>>
               ELSE <<>>)
         \o NullErrors(e, i + 1)

\* Reports are made in the null/empty branch only: the missing branch
\* continues before reaching record_validation_failure.
RECURSIVE NullReports(_, _)
NullReports(e, i) ==
    IF i > Len(REQUIRED_NON_NULL) THEN 0
    ELSE LET f == REQUIRED_NON_NULL[i] IN
         (IF Has(e, f) /\ IsNullOrEmpty(e[f]) THEN 1 ELSE 0) + NullReports(e, i + 1)

NullabilityValidatorValidate(e) ==
    LET errors == NullErrors(e, 1) IN
    [result |-> ValidationResult(errors = <<>>, "nullability_validator", errors, <<>>),
     reports |-> NullReports(e, 1)]

\* A standalone call of NullabilityValidator.validate.
NullabilityValidatorCall(e) ==
    LET nv == NullabilityValidatorValidate(e) IN
    /\ event' = e
    /\ verdict' = nv.result
    /\ null_failures' = null_failures + (IF nv.result.is_valid THEN 0 ELSE 1)
    /\ reported' = Record(reported, "null_value", nv.reports)
    /\ calls' = calls + 1
    /\ UNCHANGED <<window_size, value_history, schema_failures, range_failures,
                   anomaly_failures, validation_results, ret, fed, inputs,
                   summary, threads, metrics,
                   producer>>
    /\ raised' = FALSE

(***************************************************************************)
(* AnomalyDetector                                                         *)
(***************************************************************************)
DefaultWindowSize == 100
MinSamples == 10
StdThreshold == 3

\* Mutant: a list in place of the bounded deque, nothing is ever evicted.
ListAppend(h, cap, v) == Append(h, v)

\* deque(maxlen=cap).append(v): the oldest value leaves a full deque.
DequeAppend(h, cap, v) ==
    IF cap = 0 THEN <<>>
    ELSE IF Len(h) >= cap THEN Append(Tail(h), v)
    ELSE Append(h, v)

RECURSIVE Sum(_)
Sum(h) == IF h = <<>> THEN 0 ELSE Head(h) + Sum(Tail(h))

RECURSIVE SumSq(_)
SumSq(h) == IF h = <<>> THEN 0 ELSE Head(h) * Head(h) + SumSq(Tail(h))

\* Mutant: the mean is rounded down instead of to the nearest double.
RoundDown(s, n) == s \div n

\* The double nearest to s / n (s, n in ulp): round to nearest, ties to the
\* even mantissa; PriceBase has an even mantissa.
RoundHalfEven(s, n) ==
    LET q == s \div n
        r == s % n
    IN IF 2 * r < n THEN q
       ELSE IF 2 * r > n THEN q + 1
       ELSE IF q % 2 = 0 THEN q ELSE q + 1

\* Mutant: the mean is taken over the window before the new value.
MeanOfEarlier(h) == RoundHalfEven(Sum(SubSeq(h, 1, Len(h) - 1)), Len(h) - 1)

\* statistics.mean(values): the exact mean, rounded once to a double.
Mean(h) == RoundHalfEven(Sum(h), Len(h))

\* n (n - 1) times the sample variance, which statistics.stdev computes
\* exactly before taking the square root.
ScaledVariance(h) == Len(h) * SumSq(h) - Sum(h) * Sum(h)

\* Mutant: the deviation is taken over the window before the new value.
StdevWasZero(h) ==
    LET g == SubSeq(h, 1, Len(h) - 1) IN Len(g) * SumSq(g) - Sum(g) * Sum(g) = 0

\* stdev == 0
StdevIsZero(h) == ScaledVariance(h) = 0

\* abs((value - mean) / stdev) > std_threshold, for stdev > 0: both sides
\* squared and multiplied by n (n - 1) stdev^2.
ZScoreExceeds(h, v, threshold) ==
    LET d == v - Mean(h) IN
    d * d * Len(h) * (Len(h) - 1) > threshold * threshold * ScaledVariance(h)

\* Mutant: <= in place of <.
TooFewSamplesInclusive(h) == Len(h) <= MinSamples

\* len(self.value_history) < 10
TooFewSamples(h) == Len(h) < MinSamples

\* The early return of detect on a window of fewer than 10 samples.
InsufficientResult ==
    ValidationResult(TRUE, "anomaly_detector", <<>>,
        <<Msg("Insufficient samples for anomaly detection", "", "")>>)

\* detect from values = list(self.value_history) on: whether the anomaly
\* branch runs, and the result.
Score(values, f, v) ==
    IF StdevIsZero(values)
    THEN [flagged |-> FALSE,
          result |-> ValidationResult(TRUE, "anomaly_detector", <<>>, <<>>)]
    ELSE IF ZScoreExceeds(values, v, StdThreshold)
    THEN [flagged |-> TRUE,
          result |-> ValidationResult(FALSE, "anomaly_detector", <<>>,
                        <<Msg("Anomaly detected", f, "")>>)]
    ELSE [flagged |-> FALSE,
          result |-> ValidationResult(TRUE, "anomaly_detector", <<>>, <<>>)]

\* AnomalyDetector.detect(field, value) on window h of capacity cap, run
\* without interruption: the window after the call, the result, and whether
\* the anomaly branch ran.
Detect(h, cap, f, v) ==
    LET h2 == DequeAppend(h, cap, v) IN
    IF TooFewSamples(h2)
    THEN [history |-> h2, flagged |-> FALSE, result |-> InsufficientResult]
    ELSE [history |-> h2, flagged |-> Score(h2, f, v).flagged,
          result |-> Score(h2, f, v).result]

\* A standalone call of detect on the detector.
AnomalyDetectorDetect(v) ==
    LET d == Detect(value_history, window_size, "price", v) IN
    /\ value_history' = d.history
    /\ anomaly_failures' = anomaly_failures + (IF d.flagged THEN 1 ELSE 0)
    /\ reported' = Record(reported, "anomaly_detected", IF d.flagged THEN 1 ELSE 0)
    /\ verdict' = d.result
    /\ fed' = Append(fed, v)
    /\ calls' = calls + 1
    /\ UNCHANGED <<window_size, schema_failures, range_failures, null_failures,
                   validation_results, event, ret, inputs, summary, threads,
                   metrics, producer>>
    /\ raised' = FALSE

(***************************************************************************)
(* DataValidator                                                           *)
(***************************************************************************)
\* Nothing returned: the state of ret before any call and after a call that
\* ended in an exception.
NoRet == [overall |-> FALSE, results |-> <<>>]

\* Mutant: the isinstance test on the price is left out.
HasPrice(e) == Has(e, "properties") /\ Has(e.props, "price")

\* Mutant: a price outside its range bounds is kept from the detector.
HasNumericPriceInBounds(e) ==
    /\ Has(e, "properties") /\ Has(e.props, "price") /\ IsNumeric(e.props.price)
    /\ ~OutOfRange("price", e.props.price)

\* 'properties' in event and 'price' in event['properties'] and
\* isinstance(price, (int, float)); properties is a dict once schema passed.
HasNumericPrice(e) ==
    Has(e, "properties") /\ Has(e.props, "price") /\ IsNumeric(e.props.price)

\* Mutant: the overall verdict is the schema result alone.
OverallSchemaOnly(schema_result, nullability_result) == schema_result.is_valid

\* overall_valid = schema_result.is_valid and nullability_result.is_valid
OverallValid(schema_result, nullability_result) ==
    schema_result.is_valid /\ nullability_result.is_valid

\* Mutant: the result sequence is retained on the schema-failure return too.
DataValidatorValidateRetainsRejected(e) ==
    LET sv == SchemaValidatorValidate(e)
        rv == RangeValidatorValidate(e)
        nv == NullabilityValidatorValidate(e)
        ad == Detect(value_history, window_size, "price", e.props.price.n)
    IN /\ event' = e
       /\ calls' = calls + 1
       /\ IF sv.failed
          THEN /\ schema_failures' = schema_failures + 1
               /\ reported' = Record(reported, "schema_violation", 1)
               /\ ret' = [overall |-> FALSE, results |-> <<sv.result>>]
               /\ validation_results' = <<sv.result>>
               /\ UNCHANGED <<range_failures, null_failures, anomaly_failures,
                              value_history, fed>>
          ELSE /\ schema_failures' = schema_failures
               /\ range_failures' = range_failures + (IF rv.result.is_valid THEN 0 ELSE 1)
               /\ null_failures' = null_failures + (IF nv.result.is_valid THEN 0 ELSE 1)
               /\ IF HasNumericPrice(e)
                  THEN /\ value_history' = ad.history
                       /\ fed' = Append(fed, e.props.price.n)
                       /\ anomaly_failures' = anomaly_failures + (IF ad.flagged THEN 1 ELSE 0)
                       /\ reported' = Record(Record(Record(reported,
                                         "out_of_range", rv.reports),
                                         "null_value", nv.reports),
                                         "anomaly_detected", IF ad.flagged THEN 1 ELSE 0)
                       /\ validation_results' = <<sv.result, rv.result, nv.result, ad.result>>
                  ELSE /\ reported' = Record(Record(reported,
                                         "out_of_range", rv.reports),
                                         "null_value", nv.reports)
                       /\ validation_results' = <<sv.result, rv.result, nv.result>>
                       /\ UNCHANGED <<value_history, fed, anomaly_failures>>
               /\ ret' = [overall |-> OverallValid(sv.result, nv.result),
                          results |-> validation_results']
       /\ raised' = FALSE
       /\ UNCHANGED <<window_size, verdict, inputs, summary, threads,
                      metrics, producer>>

\* DataValidator.validate(event)
DataValidatorValidate(e) ==
    LET sv == SchemaValidatorValidate(e)
        rv == RangeValidatorValidate(e)
        nv == NullabilityValidatorValidate(e)
        ad == Detect(value_history, window_size, "price", e.props.price.n)
    IN /\ event' = e
       /\ calls' = calls + 1
       /\ IF sv.failed
          THEN /\ schema_failures' = schema_failures + 1
               /\ reported' = Record(reported, "schema_violation", 1)
               /\ ret' = [overall |-> FALSE, results |-> <<sv.result>>]
               /\ UNCHANGED <<range_failures, null_failures, anomaly_failures,
                              value_history, validation_results, fed>>
          ELSE /\ schema_failures' = schema_failures
               /\ range_failures' = range_failures + (IF rv.result.is_valid THEN 0 ELSE 1)
               /\ null_failures' = null_failures + (IF nv.result.is_valid THEN 0 ELSE 1)
               /\ IF HasNumericPrice(e)
                  THEN /\ value_history' = ad.history
                       /\ fed' = Append(fed, e.props.price.n)
                       /\ anomaly_failures' = anomaly_failures + (IF ad.flagged THEN 1 ELSE 0)
                       /\ reported' = Record(Record(Record(reported,
                                         "out_of_range", rv.reports),
                                         "null_value", nv.reports),
                                         "anomaly_detected", IF ad.flagged THEN 1 ELSE 0)
                       /\ validation_results' = <<sv.result, rv.result, nv.result, ad.result>>
                  ELSE /\ reported' = Record(Record(reported,
                                         "out_of_range", rv.reports),
                                         "null_value", nv.reports)
                       /\ validation_results' = <<sv.result, rv.result, nv.result>>
                       /\ UNCHANGED <<value_history, fed, anomaly_failures>>
               /\ ret' = [overall |-> OverallValid(sv.result, nv.result),
                          results |-> validation_results']
       /\ raised' = FALSE
       /\ UNCHANGED <<window_size, verdict, inputs, summary, threads,
                      metrics, producer>>

\* DataValidator.validate(e) while every record_validation_failure call
\* raises: no validator catches, so the exception leaves validate at the
\* first report, after the assignments made before it.
DataValidatorValidateSinkRaising(e) ==
    LET sv == SchemaValidatorValidate(e)
        rv == RangeValidatorValidate(e)
        nv == NullabilityValidatorValidate(e)
        ad == Detect(value_history, window_size, "price", e.props.price.n)
        in_schema == sv.failed
        in_range == ~in_schema /\ rv.reports > 0
        in_null == ~in_schema /\ ~in_range /\ nv.reports > 0
        detects == ~in_schema /\ ~in_range /\ ~in_null /\ HasNumericPrice(e)
        in_detect == detects /\ ad.flagged
        results == <<sv.result, rv.result, nv.result>>
                       \o (IF detects THEN <<ad.result>> ELSE <<>>)
    IN /\ event' = e
       /\ calls' = calls + 1
       /\ raised' = (in_schema \/ in_range \/ in_null \/ in_detect)
       /\ schema_failures' = schema_failures + (IF in_schema THEN 1 ELSE 0)
       /\ range_failures' = range_failures +
              (IF in_schema \/ in_range \/ rv.result.is_valid THEN 0 ELSE 1)
       /\ null_failures' = null_failures +
              (IF in_schema \/ in_range \/ in_null \/ nv.result.is_valid THEN 0 ELSE 1)
       /\ value_history' = IF detects THEN ad.history ELSE value_history
       /\ fed' = IF detects THEN Append(fed, e.props.price.n) ELSE fed
       /\ IF raised'
          THEN /\ ret' = NoRet
               /\ UNCHANGED validation_results
          ELSE /\ ret' = [overall |-> OverallValid(sv.result, nv.result),
                          results |-> results]
               /\ validation_results' = results
       /\ UNCHANGED <<window_size, anomaly_failures, reported, verdict, inputs,
                      summary, threads,
                      metrics, producer>>

\* Mutant: every result is counted as passed.
CountAll(R) == Len(R)

\* sum(1 for r in self.validation_results if r.is_valid)
RECURSIVE CountValid(_)
CountValid(R) ==
    IF R = <<>> THEN 0
    ELSE (IF Head(R).is_valid THEN 1 ELSE 0) + CountValid(Tail(R))

\* sum(len(r.warnings) for r in self.validation_results)
RECURSIVE CountWarnings(_)
CountWarnings(R) ==
    IF R = <<>> THEN 0 ELSE Len(Head(R).warnings) + CountWarnings(Tail(R))

\* The dict get_summary builds from the retained results R.
GetSummary(R) ==
    [total_validations |-> Len(R), passed |-> CountValid(R),
     warnings |-> CountWarnings(R),
     validators |-> [i \in 1..Len(R) |-> R[i].validator_name]]

\* DataValidator.get_summary(): reads validation_results, changes nothing.
DataValidatorGetSummary ==
    /\ summary' = <<GetSummary(validation_results)>>
    /\ UNCHANGED <<window_size, value_history, schema_failures, range_failures,
                   null_failures, anomaly_failures, validation_results,
                   reported, event, ret, verdict, fed, inputs, calls, raised,
                   threads, metrics, producer>>

(***************************************************************************)
(* KafkaEventProducer.  The Kafka client is outside the repository: a      *)
(* send is one of the outcomes its interface allows.                       *)
(***************************************************************************)
\* ProducerMetrics(): the three outcome counters of a new producer.
ProducerMetrics ==
    [events_sent |-> 0, events_failed |-> 0, schema_validation_failures |-> 0]

\* KafkaEventProducer(validate_schema=v): handed counts the records given
\* to the Kafka client, pending the sends whose future is not yet done,
\* returned and outcome describe the last send_event call.
NewProducer(v) ==
    [validate_schema |-> v, handed |-> 0, pending |-> 0, returned |-> FALSE,
     outcome |-> "none"]

\* What the Kafka client does with one send: the future succeeds within
\* the timeout; the future fails within it (the errback is called and
\* future.get raises the KafkaError); to_json or producer.send raises; the
\* future is not done when the timeout expires (future.get raises).
SendOutcomes == {"delivered", "failed", "raised", "timeout"}

\* Event(**kwargs): source defaults to "direct".
Event(e) == [e EXCEPT !.source = IF @.t = "absent" THEN PyStr("direct") ELSE @]

\* Event.to_dict(): asdict over the dataclass fields, which are always
\* present; price, quantity and discount are no fields of an Event.
ToDict(ev) ==
    [f \in DOMAIN ev |->
        IF f \in {"price", "quantity", "discount"} THEN Absent ELSE ev[f]]

\* _on_send_error: self.metrics.events_failed += 1
OnSendError(m) == [m EXCEPT !.events_failed = @ + 1]

\* The except branches of send_event: self.metrics.events_failed += 1
SendFailed(m) == [m EXCEPT !.events_failed = @ + 1]

\* KafkaEventProducer.send_event(ev) when the Kafka client answers with
\* outcome o.
KafkaEventProducerSendEvent(ev, o) ==
    /\ event' = ev
    /\ calls' = calls + 1
    /\ IF producer.validate_schema /\ ~EventSchemaValidate(ToDict(ev)).ok
       THEN /\ metrics' = [metrics EXCEPT !.schema_validation_failures = @ + 1]
            /\ producer' = [producer EXCEPT !.returned = FALSE,
                                            !.outcome = "rejected"]
       ELSE CASE o = "delivered" ->
                 /\ metrics' = [metrics EXCEPT !.events_sent = @ + 1]
                 /\ producer' = [producer EXCEPT !.handed = @ + 1,
                                                 !.returned = TRUE,
                                                 !.outcome = o]
              [] o = "failed" ->
                 /\ metrics' = SendFailed(OnSendError(metrics))
                 /\ producer' = [producer EXCEPT !.handed = @ + 1,
                                                 !.returned = FALSE,
                                                 !.outcome = o]
              [] o = "raised" ->
                 /\ metrics' = SendFailed(metrics)
                 /\ producer' = [producer EXCEPT !.returned = FALSE,
                                                 !.outcome = o]
              [] OTHER ->
                 /\ metrics' = SendFailed(metrics)
                 /\ producer' = [producer EXCEPT !.handed = @ + 1,
                                                 !.pending = @ + 1,
                                                 !.returned = FALSE,
                                                 !.outcome = o]
    /\ UNCHANGED <<window_size, value_history, schema_failures, range_failures,
                   null_failures, anomaly_failures, validation_results,
                   reported, ret, verdict, fed, inputs, raised, summary,
                   threads>>

\* A send that timed out fails later: the client calls _on_send_error.
KafkaEventProducerOnSendError ==
    /\ producer.pending > 0
    /\ metrics' = OnSendError(metrics)
    /\ producer' = [producer EXCEPT !.pending = @ - 1]
    /\ UNCHANGED <<window_size, value_history, schema_failures, range_failures,
                   null_failures, anomaly_failures, validation_results,
                   reported, event, ret, verdict, fed, inputs, calls, raised,
                   summary, threads>>

\* A send that timed out succeeds later: _on_send_success only logs.
KafkaEventProducerOnSendSuccess ==
    /\ producer.pending > 0
    /\ producer' = [producer EXCEPT !.pending = @ - 1]
    /\ UNCHANGED <<window_size, value_history, schema_failures, range_failures,
                   null_failures, anomaly_failures, validation_results,
                   reported, event, ret, verdict, fed, inputs, calls, raised,
                   summary, threads, metrics>>

(***************************************************************************)
(* DataValidator.validate run by several callers at once.  A caller's      *)
(* step is one access to the shared objects: x += d is a read of x and,    *)
(* in a later step, the write of the sum; deque.append, len(deque),        *)
(* list(deque), a sink call and an attribute assignment are one step each. *)
(***************************************************************************)
\* The variables only a caller outside the concurrent section uses.
serial == <<event, ret, verdict, inputs, raised, summary, metrics, producer>>

\* Mutant: the results are added to the retained list.
RetainedExtended(old, results) == old \o results

\* self.validation_results = results
Retained(old, results) == results

Goto(t, label) == [threads EXCEPT ![t].pc = label]

\* validate(e) is entered: results = []
ThreadEnter(t, e) ==
    /\ threads[t].pc = "idle"
    /\ threads' = [threads EXCEPT ![t].pc = "schema", ![t].event = e]
    /\ calls' = calls + 1
    /\ UNCHANGED <<window_size, value_history, schema_failures, range_failures,
                   null_failures, anomaly_failures, validation_results,
                   reported, fed, serial>>

\* SchemaValidator.validate up to the read of failure_count
ThreadSchema(t) ==
    LET fr == threads[t]
        sv == SchemaValidatorValidate(fr.event)
    IN /\ fr.pc = "schema"
       /\ threads' = IF sv.failed
                     THEN [threads EXCEPT ![t].pc = "schema_count",
                                          ![t].tmp = schema_failures]
                     ELSE [threads EXCEPT ![t].pc = "range",
                                          ![t].results = <<sv.result>>]
       /\ UNCHANGED <<window_size, value_history, schema_failures, range_failures,
                      null_failures, anomaly_failures, validation_results,
                      reported, fed, calls, serial>>

\* the write of failure_count, the report, and return False, results
ThreadSchemaCount(t) ==
    LET fr == threads[t]
        sv == SchemaValidatorValidate(fr.event)
    IN /\ fr.pc = "schema_count"
       /\ schema_failures' = fr.tmp + 1
       /\ reported' = Record(reported, "schema_violation", 1)
       /\ threads' = [threads EXCEPT ![t].pc = "done",
                                     ![t].results = <<sv.result>>,
                                     ![t].overall = FALSE]
       /\ UNCHANGED <<window_size, value_history, range_failures, null_failures,
                      anomaly_failures, validation_results, fed, calls, serial>>

\* RangeValidator.validate up to the read of failure_count
ThreadRange(t) ==
    LET fr == threads[t]
        rv == RangeValidatorValidate(fr.event)
    IN /\ fr.pc = "range"
       /\ reported' = Record(reported, "out_of_range", rv.reports)
       /\ threads' = [threads EXCEPT ![t].pc = "range_count",
                                     ![t].tmp = range_failures]
       /\ UNCHANGED <<window_size, value_history, schema_failures, range_failures,
                      null_failures, anomaly_failures, validation_results,
                      fed, calls, serial>>

\* self.failure_count += 0 if is_valid else 1: the write
ThreadRangeCount(t) ==
    LET fr == threads[t]
        rv == RangeValidatorValidate(fr.event)
    IN /\ fr.pc = "range_count"
       /\ range_failures' = fr.tmp + (IF rv.result.is_valid THEN 0 ELSE 1)
       /\ threads' = [threads EXCEPT ![t].pc = "null",
                                     ![t].results = Append(@, rv.result)]
       /\ UNCHANGED <<window_size, value_history, schema_failures, null_failures,
                      anomaly_failures, validation_results, reported, fed,
                      calls, serial>>

\* NullabilityValidator.validate up to the read of failure_count
ThreadNull(t) ==
    LET fr == threads[t]
        nv == NullabilityValidatorValidate(fr.event)
    IN /\ fr.pc = "null"
       /\ reported' = Record(reported, "null_value", nv.reports)
       /\ threads' = [threads EXCEPT ![t].pc = "null_count",
                                     ![t].tmp = null_failures]
       /\ UNCHANGED <<window_size, value_history, schema_failures, range_failures,
                      null_failures, anomaly_failures, validation_results,
                      fed, calls, serial>>

\* the write of failure_count; then the price test
ThreadNullCount(t) ==
    LET fr == threads[t]
        nv == NullabilityValidatorValidate(fr.event)
    IN /\ fr.pc = "null_count"
       /\ null_failures' = fr.tmp + (IF nv.result.is_valid THEN 0 ELSE 1)
       /\ threads' = [threads EXCEPT
                        ![t].pc = IF HasNumericPrice(fr.event) THEN "append" ELSE "store",
                        ![t].results = Append(@, nv.result)]
       /\ UNCHANGED <<window_size, value_history, schema_failures, range_failures,
                      anomaly_failures, validation_results, reported, fed,
                      calls, serial>>

\* self.value_history.append(value); after is the window right then.
ThreadAppend(t) ==
    LET fr == threads[t]
        h2 == DequeAppend(value_history, window_size, fr.event.props.price.n)
    IN /\ fr.pc = "append"
       /\ value_history' = h2
       /\ fed' = Append(fed, fr.event.props.price.n)
       /\ threads' = [threads EXCEPT ![t].pc = "len", ![t].after = h2]
       /\ UNCHANGED <<window_size, schema_failures, range_failures, null_failures,
                      anomaly_failures, validation_results, reported, calls,
                      serial>>

\* if len(self.value_history) < 10: return the advisory result
ThreadLen(t) ==
    /\ threads[t].pc = "len"
    /\ threads' = IF TooFewSamples(value_history)
                  THEN [threads EXCEPT ![t].pc = "store",
                                       ![t].results = Append(@, InsufficientResult)]
                  ELSE Goto(t, "copy")
    /\ UNCHANGED <<window_size, value_history, schema_failures, range_failures,
                   null_failures, anomaly_failures, validation_results,
                   reported, fed, calls, serial>>

\* values = list(self.value_history), then the score of the copy
ThreadCopy(t) ==
    LET fr == threads[t]
        sc == Score(value_history, "price", fr.event.props.price.n)
    IN /\ fr.pc = "copy"
       /\ threads' = IF sc.flagged
                     THEN [threads EXCEPT ![t].pc = "anomaly_read",
                                          ![t].values = value_history]
                     ELSE [threads EXCEPT ![t].pc = "store",
                                          ![t].values = value_history,
                                          ![t].results = Append(@, sc.result)]
       /\ UNCHANGED <<window_size, value_history, schema_failures, range_failures,
                      null_failures, anomaly_failures, validation_results,
                      reported, fed, calls, serial>>

\* the anomaly report and the read of failure_count
ThreadAnomalyRead(t) ==
    /\ threads[t].pc = "anomaly_read"
    /\ reported' = Record(reported, "anomaly_detected", 1)
    /\ threads' = [threads EXCEPT ![t].pc = "anomaly_count",
                                  ![t].tmp = anomaly_failures]
    /\ UNCHANGED <<window_size, value_history, schema_failures, range_failures,
                   null_failures, anomaly_failures, validation_results, fed,
                   calls, serial>>

\* self.failure_count += 1: the write; detect returns
ThreadAnomalyCount(t) ==
    LET fr == threads[t]
        sc == Score(fr.values, "price", fr.event.props.price.n)
    IN /\ fr.pc = "anomaly_count"
       /\ anomaly_failures' = fr.tmp + 1
       /\ threads' = [threads EXCEPT ![t].pc = "store",
                                     ![t].results = Append(@, sc.result)]
       /\ UNCHANGED <<window_size, value_history, schema_failures, range_failures,
                      null_failures, validation_results, reported, fed, calls,
                      serial>>

\* overall_valid, self.validation_results = results, return
ThreadStore(t) ==
    LET fr == threads[t] IN
    /\ fr.pc = "store"
    /\ validation_results' = Retained(validation_results, fr.results)
    /\ threads' = [threads EXCEPT ![t].pc = "done",
                                  ![t].overall = OverallValid(fr.results[1], fr.results[3])]
    /\ UNCHANGED <<window_size, value_history, schema_failures, range_failures,
                   null_failures, anomaly_failures, reported, fed, calls, serial>>

(***************************************************************************)
(* Inputs                                                                  *)
(***************************************************************************)
WarmupCalls == 9
MaxCalls == 4
MaxFeeds == 12
MaxIdentical == 101
FarGap == 100
MaxSends == 4

NoProps == [user_id |-> Absent, price |-> Absent, quantity |-> Absent, discount |-> Absent]

\* The well-formed purchase event, without a price.
GoodEvent ==
    [event_id |-> PyStr("evt_0000000001"), event_type |-> PyStr("purchase"),
     user_id |-> PyInt(12345), timestamp |-> PyStr(TimestampZ),
     session_id |-> PyStr("sess_1"), properties |-> PyDict,
     device |-> PyStr("mobile"), geo_location |-> PyStr("US-CA"),
     source |-> Absent, price |-> Absent, quantity |-> Absent,
     discount |-> Absent, props |-> NoProps]

NoEvent == [f \in DOMAIN GoodEvent |-> IF f = "props" THEN NoProps ELSE Absent]

WithPrice(e, c) == [e EXCEPT !.props.price = c]

\* The record of the steady stream that fills the window: price 999999.99.
SteadyEvent == WithPrice(GoodEvent, PyFloat(0))

\* Records the engine validates after the steady stream: prices 999999.99 and
\* 999999.99 + FarGap ulp (above the range maximum), no price, a quantity
\* out of range with a price that is no number, a blank event_id, an
\* unknown device and a missing session_id.
EngineEvents ==
    { SteadyEvent,
      GoodEvent,
      WithPrice(GoodEvent, PyFloat(FarGap)),
      [GoodEvent EXCEPT !.props.quantity = PyInt(0), !.props.price = PyStr("free")],
      [WithPrice(GoodEvent, PyFloat(FarGap)) EXCEPT !.event_id = PyStr(" ")],
      [WithPrice(GoodEvent, PyFloat(0)) EXCEPT !.device = PyStr("smartwatch")],
      [GoodEvent EXCEPT !.session_id = Absent] }

\* Records of the concurrent callers: the steady price, a price FarGap ulp
\* above it with a blank event_id, and an unknown device.
ThreadEvents ==
    { SteadyEvent,
      [WithPrice(GoodEvent, PyFloat(FarGap)) EXCEPT !.event_id = PyStr(" ")],
      [WithPrice(GoodEvent, PyFloat(0)) EXCEPT !.device = PyStr("smartwatch")] }

\* Events handed to the producer: well-formed with the default and with a
\* given source, and with an unknown device, a user_id of 0 and an unknown
\* source.
ProducerEvents ==
    { Event(SteadyEvent),
      Event([GoodEvent EXCEPT !.source = PyStr("organic")]),
      Event([GoodEvent EXCEPT !.device = PyStr("smartwatch")]),
      Event([SteadyEvent EXCEPT !.user_id = PyInt(0)]),
      Event([GoodEvent EXCEPT !.source = PyStr("email")]) }

\* Records for one call on a fresh engine: every combination of these
\* values of the fields.
RecordEvents ==
    { [event_id |-> id, event_type |-> ty, user_id |-> uid, timestamp |-> ts,
       session_id |-> sess, properties |-> pr, device |-> dev,
       geo_location |-> geo, source |-> src, price |-> Absent,
       quantity |-> Absent, discount |-> Absent,
       props |-> [NoProps EXCEPT !.price = IF pr = PyDict THEN PyFloat(0) ELSE Absent]] :
        id \in {PyStr("evt_0000000001"), PyStr(" "), PyInt(7), Absent},
        ty \in {PyStr("purchase"), PyStr("refund"), PyNone, Absent},
        uid \in {PyInt(12345), PyInt(0), PyInt(-1), PyBool(FALSE), PyStr("12345"), Absent},
        ts \in {PyStr(TimestampZ), PyStr("yesterday"), Absent},
        sess \in {PyStr("sess_1"), Absent},
        pr \in {PyDict, PyList, Absent},
        dev \in {PyStr("mobile"), PyStr("smartwatch"), Absent},
        geo \in {PyStr("US-CA"), PyStr("USCA"), Absent},
        src \in {PyStr("organic"), PyStr("email"), Absent} }

\* Records for a standalone Range Validator: values in range, at the bounds,
\* just outside them and not numeric, at top level and in properties.
RangeEvents ==
    { [GoodEvent EXCEPT !.user_id = uid, !.price = pri, !.quantity = qty,
                        !.discount = dis, !.properties = pr, !.props = pp] :
        uid \in {PyInt(12345), PyInt(1), PyInt(0), PyStr("12345")},
        pri \in {Absent, PyFloat(0), PyFloat(1), PyInt(0)},
        qty \in {Absent, PyInt(1000), PyInt(1001), PyNone},
        dis \in {Absent, PyInt(0), PyInt(-1), PyStr("10")},
        pr \in {PyDict},
        pp \in { [user_id |-> u, price |-> p, quantity |-> q, discount |-> d] :
                   u \in {Absent, PyInt(0)},
                   p \in {Absent, PyFloat(0), PyFloat(1), PyStr("free")},
                   q \in {Absent, PyInt(1), PyInt(0)},
                   d \in {Absent, PyInt(100), PyInt(101)} } }

\* The same with properties that is no dict or is missing.
RangeEventsNoDict ==
    { [GoodEvent EXCEPT !.user_id = uid, !.price = pri, !.quantity = qty,
                        !.discount = dis, !.properties = pr] :
        uid \in {PyInt(12345), PyInt(1), PyInt(0), PyStr("12345")},
        pri \in {Absent, PyFloat(0), PyFloat(1), PyInt(0)},
        qty \in {Absent, PyInt(1000), PyInt(1001), PyNone},
        dis \in {Absent, PyInt(0), PyInt(-1), PyStr("10")},
        pr \in {PyList, Absent} }

\* Records for a standalone Nullability Validator: each of the six fields
\* filled, null, blank or missing.
NullEvents ==
    { [GoodEvent EXCEPT !.event_id = id, !.event_type = ty, !.user_id = uid,
                        !.timestamp = ts, !.device = dev, !.geo_location = geo] :
        id \in {PyStr("evt_0000000001"), PyStr(" "), PyStr(""), PyNone, Absent},
        ty \in {PyStr("purchase"), PyStr(" "), PyNone, Absent},
        uid \in {PyInt(12345), PyInt(0), PyNone, Absent},
        ts \in {PyStr(TimestampZ), PyStr(""), PyNone, Absent},
        dev \in {PyStr("mobile"), PyStr(" "), PyNone, Absent},
        geo \in {PyStr("US-CA"), PyStr(""), PyList, Absent} }

\* Records for the schema gate in front of the Nullability Validator: each
\* of its six fields filled, blank, empty, null or missing, with and without
\* a price.
GateEvents ==
    { [GoodEvent EXCEPT !.event_id = id, !.event_type = ty, !.user_id = uid,
                        !.timestamp = ts, !.device = dev, !.geo_location = geo,
                        !.props.price = pri] :
        id \in {PyStr("evt_0000000001"), PyStr(" "), PyStr(""), PyNone, Absent},
        ty \in {PyStr("purchase"), PyStr(" "), PyStr(""), PyNone},
        uid \in {PyInt(12345), PyBool(TRUE), PyInt(0), PyNone},
        ts \in {PyStr(TimestampZ), PyStr(" "), PyNone},
        dev \in {PyStr("mobile"), PyStr(" "), PyNone, Absent},
        geo \in {PyStr("US-CA"), PyStr("-"), PyStr(" "), PyStr(""), PyNone},
        pri \in {Absent, PyFloat(0)} }

\* Capacities of a standalone detector and the pairs of doubles (in ulp
\* from PriceBase) fed to it.
DetectorSizes == {9, 10, 11}
DetectorInputs ==
    { [same |-> 0, other |-> 1], [same |-> 0, other |-> 6],
      [same |-> 1, other |-> 7], [same |-> 0, other |-> FarGap] }
\* The doubles (in ulp from PriceBase) fed to a detector that is scored on
\* its first ten samples: neighbours, values a few ulp apart and a far one.
TenValues == {0, 1, 2, 3, 9, 13, FarGap}
OutlierGaps == (1..12) \cup (90..FarGap)
OutlierInputs ==
    { [same |-> a, other |-> a + sign * d] :
        a \in {0, 1}, sign \in {-1, 1}, d \in OutlierGaps }

(***************************************************************************)
(* Specifications                                                          *)
(***************************************************************************)
NoVerdict == ValidationResult(TRUE, "", <<>>, <<>>)

\* The callers that may run validate at the same time on one DataValidator.
Threads == {"t1", "t2"}

\* A caller that is not inside a call: frame holds the locals of a call
\* (event, results, the value read by a +=, the list copied from the deque).
NoThread ==
    [pc |-> "idle", event |-> NoEvent, results |-> <<>>, tmp |-> 0,
     values |-> <<>>, after |-> <<>>, overall |-> FALSE]

\* A fresh DataValidator (or AnomalyDetector) of capacity cap.
FreshValidator(cap) ==
    /\ window_size = cap
    /\ value_history = <<>>
    /\ schema_failures = 0
    /\ range_failures = 0
    /\ null_failures = 0
    /\ anomaly_failures = 0
    /\ validation_results = <<>>
    /\ reported = [r \in Reasons |-> 0]
    /\ event = NoEvent
    /\ ret = NoRet
    /\ verdict = NoVerdict
    /\ fed = <<>>
    /\ calls = 0
    /\ raised = FALSE
    /\ summary = <<>>
    /\ threads = [t \in Threads |-> NoThread]

\* The same next to a new producer with the default validate_schema=True.
Fresh(cap) ==
    /\ FreshValidator(cap)
    /\ metrics = ProducerMetrics
    /\ producer = NewProducer(TRUE)

\* The engine validates a steady stream of WarmupCalls records and then up
\* to MaxCalls records of any kind.
Init == Fresh(DefaultWindowSize) /\ inputs = [same |-> 0, other |-> 0]

Warmup == calls < WarmupCalls /\ DataValidatorValidate(SteadyEvent)

Validate ==
    /\ calls >= WarmupCalls
    /\ calls < WarmupCalls + MaxCalls
    /\ \E e \in EngineEvents : DataValidatorValidate(e)

Next == Warmup \/ Validate

Spec == Init /\ [][Next]_vars

\* The engine with a metrics sink that may be down: after the steady
\* stream, each call runs with the sink working or with the sink raising.
ValidateSinkRaising ==
    /\ calls >= WarmupCalls
    /\ calls < WarmupCalls + MaxCalls
    /\ \E e \in EngineEvents : DataValidatorValidateSinkRaising(e)

NextSink == Warmup \/ Validate \/ ValidateSinkRaising

SpecSink == Init /\ [][NextSink]_vars

\* After the steady stream, each caller makes one validate call on the
\* shared engine, the calls running at the same time.
Enter ==
    /\ calls >= WarmupCalls
    /\ \E t \in Threads : \E e \in ThreadEvents : ThreadEnter(t, e)

NextThreads ==
    \/ Warmup
    \/ Enter
    \/ \E t \in Threads : ThreadSchema(t)
    \/ \E t \in Threads : ThreadSchemaCount(t)
    \/ \E t \in Threads : ThreadRange(t)
    \/ \E t \in Threads : ThreadRangeCount(t)
    \/ \E t \in Threads : ThreadNull(t)
    \/ \E t \in Threads : ThreadNullCount(t)
    \/ \E t \in Threads : ThreadAppend(t)
    \/ \E t \in Threads : ThreadLen(t)
    \/ \E t \in Threads : ThreadCopy(t)
    \/ \E t \in Threads : ThreadAnomalyRead(t)
    \/ \E t \in Threads : ThreadAnomalyCount(t)
    \/ \E t \in Threads : ThreadStore(t)

SpecThreads == Init /\ [][NextThreads]_vars

\* The engine with get_summary asked at any time between the calls.
NextSummary == Warmup \/ Validate \/ DataValidatorGetSummary

SpecSummary == Init /\ [][NextSummary]_vars

\* A fresh engine validates up to MaxCalls records of any kind, get_summary
\* asked at any time between the calls.
ValidateFresh ==
    /\ calls < MaxCalls
    /\ \E e \in EngineEvents : DataValidatorValidate(e)

NextRetained == ValidateFresh \/ DataValidatorGetSummary

SpecRetained == Init /\ [][NextRetained]_vars

\* A producer, with or without schema validation, sends up to MaxSends
\* events one after the other; the futures of timed-out sends complete at
\* any later time.
InitProducer ==
    /\ FreshValidator(DefaultWindowSize)
    /\ inputs = [same |-> 0, other |-> 0]
    /\ metrics = ProducerMetrics
    /\ \E v \in BOOLEAN : producer = NewProducer(v)

SendEvent ==
    /\ calls < MaxSends
    /\ \E ev \in ProducerEvents : \E o \in SendOutcomes :
          KafkaEventProducerSendEvent(ev, o)

NextProducer ==
    \/ SendEvent
    \/ KafkaEventProducerOnSendError
    \/ KafkaEventProducerOnSendSuccess

SpecProducer == InitProducer /\ [][NextProducer]_vars

\* One record, of any shape, validated by a fresh engine.
ValidateRecord == calls = 0 /\ \E e \in RecordEvents : DataValidatorValidate(e)

NextRecord == ValidateRecord

SpecRecord == Init /\ [][NextRecord]_vars

\* One record of the schema gate, validated by a fresh engine.
ValidateGate == calls = 0 /\ \E e \in GateEvents : DataValidatorValidate(e)

NextGate == ValidateGate

SpecGate == Init /\ [][NextGate]_vars

\* A standalone detector of a configured capacity fed two doubles in any order.
InitDetector ==
    /\ \E cap \in DetectorSizes : Fresh(cap)
    /\ inputs \in DetectorInputs

Feed == calls < MaxFeeds /\ \E v \in {inputs.same, inputs.other} : AnomalyDetectorDetect(v)

NextDetector == Feed

SpecDetector == InitDetector /\ [][NextDetector]_vars

\* The Range and Nullability validators called on their own: one record,
\* validated once and then once more as the first call left it.
RangeValidate ==
    /\ calls = 0
    /\ \/ \E e \in RangeEvents : RangeValidatorCall(e)
       \/ \E e \in RangeEventsNoDict : RangeValidatorCall(e)

RangeValidateAgain ==
    /\ calls = 1
    /\ verdict.validator_name = "range_validator"
    /\ RangeValidatorCall(event)

NullabilityValidate == calls = 0 /\ \E e \in NullEvents : NullabilityValidatorCall(e)

NullabilityValidateAgain ==
    /\ calls = 1
    /\ verdict.validator_name = "nullability_validator"
    /\ NullabilityValidatorCall(event)

NextUnits ==
    \/ RangeValidate
    \/ RangeValidateAgain
    \/ NullabilityValidate
    \/ NullabilityValidateAgain

SpecUnits == Init /\ [][NextUnits]_vars

\* A default detector fed its first ten samples: nine values in
\* nondecreasing order and then a tenth of any value.
FeedAscending ==
    /\ calls < MinSamples - 1
    /\ \E v \in TenValues :
          /\ IF fed = <<>> THEN TRUE ELSE v >= fed[Len(fed)]
          /\ AnomalyDetectorDetect(v)

FeedTenth == calls = MinSamples - 1 /\ \E v \in TenValues : AnomalyDetectorDetect(v)

NextTen == FeedAscending \/ FeedTenth

SpecTen == Init /\ [][NextTen]_vars

\* A default detector fed identical values and then one other value.
InitOutlier == Fresh(DefaultWindowSize) /\ inputs \in OutlierInputs

OutlierFed == fed # <<>> /\ fed[Len(fed)] # inputs.same

FeedSame == ~OutlierFed /\ calls < MaxIdentical /\ AnomalyDetectorDetect(inputs.same)

FeedOutlier == ~OutlierFed /\ calls >= MinSamples /\ AnomalyDetectorDetect(inputs.other)

NextOutlier == FeedSame \/ FeedOutlier

SpecOutlier == InitOutlier /\ [][NextOutlier]_vars

(***************************************************************************)
(* Properties of DataValidator.validate on a stream of records             *)
(***************************************************************************)
Called == calls > 0

SchemaFails(e) == ~EventSchemaValidate(e).ok

Names(results) == [i \in 1..Len(results) |-> results[i].validator_name]

Cites(messages, f) == \E i \in 1..Len(messages) : messages[i].field = f

\* C1: a call on a record the Schema Validator fails returns overall_valid
\* false with the schema result alone, and leaves the Range and Nullability
\* failure counters, the anomaly window, the anomaly failure counter and
\* the reports of the other validators as they were.
C1_SchemaGate ==
    [][(calls' = calls + 1 /\ SchemaFails(event')) =>
         /\ ret'.overall = FALSE
         /\ Len(ret'.results) = 1
         /\ ret'.results[1].validator_name = "schema_validator"
         /\ ret'.results[1].is_valid = FALSE
         /\ range_failures' = range_failures
         /\ null_failures' = null_failures
         /\ anomaly_failures' = anomaly_failures
         /\ value_history' = value_history
         /\ \A r \in Reasons \ {"schema_violation"} : reported'[r] = reported[r]]_vars

C1_Witness ==
    /\ calls > WarmupCalls + 1
    /\ SchemaFails(event)
    /\ Len(ret.results) = 1
    /\ value_history # <<>>
    /\ range_failures > 0
    /\ null_failures > 0

C3_ResultOrder ==
    (Called /\ ~SchemaFails(event)) =>
        /\ Names(ret.results) =
              <<"schema_validator", "range_validator", "nullability_validator">>
              \o (IF event.props.price.t \in {"int", "float", "bool"}
                  THEN <<"anomaly_detector">> ELSE <<>>)
        /\ ret.results[2] = RangeValidatorValidate(event).result
        /\ ret.results[3] = NullabilityValidatorValidate(event).result
        /\ Len(ret.results) \in {3, 4}

C3_Witness ==
    /\ Called
    /\ Len(ret.results) = 4
    /\ ~ret.results[3].is_valid
    /\ ~ret.results[4].is_valid
    /\ ~ret.overall

(***************************************************************************)
(* Properties of AnomalyDetector.detect                                    *)
(***************************************************************************)
Min(a, b) == IF a < b THEN a ELSE b

Abs(x) == IF x < 0 THEN -x ELSE x

Last(h) == h[Len(h)]

Insufficient == <<Msg("Insufficient samples for anomaly detection", "", "")>>

\* C4: after k detect calls the window holds exactly the last
\* min(k, capacity) values fed, oldest first, so it never exceeds the capacity.
C4_WindowIsSuffix ==
    LET k == Len(fed)
        m == Min(k, window_size)
    IN /\ value_history = SubSeq(fed, k - m + 1, k)
       /\ Len(value_history) <= window_size

C4_Witness ==
    /\ Len(fed) = window_size + 2
    /\ fed[1] # fed[2]
    /\ fed[2] # fed[3]
    /\ Len(value_history) = window_size

\* C5: a detect call that leaves fewer than 10 samples in the window returns
\* is_valid true with exactly the insufficient-samples warning and leaves
\* the failure counter unchanged; on a detector of capacity at least 10 the
\* calls that carry this warning are exactly the first nine.
C5_InsufficientSamples ==
    /\ [](Called =>
            /\ Len(value_history) < 10 =>
                  (verdict.is_valid /\ verdict.warnings = Insufficient)
            /\ window_size >= 10 => ((verdict.warnings = Insufficient) <=> calls <= 9))
    /\ [][(calls' = calls + 1 /\ Len(value_history') < 10) =>
            /\ anomaly_failures' = anomaly_failures
            /\ reported' = reported]_vars

C5_Witness ==
    /\ calls = 9
    /\ window_size >= 10
    /\ verdict.warnings = Insufficient
    /\ fed[9] # fed[8]

\* The double nearest to the exact mean of h, ties to the even mantissa.
NearestMean(h) ==
    LET q == Sum(h) \div Len(h) IN
    CHOOSE c \in {q, q + 1} :
        /\ 2 * Abs(Len(h) * c - Sum(h)) <= Len(h)
        /\ 2 * Abs(Len(h) * c - Sum(h)) = Len(h) => c % 2 = 0

\* n^2 times the sum of the squared deviations of h from its exact mean,
\* which is n^2 (n - 1) times the sample variance.
RECURSIVE SquaredDeviations(_, _, _)
SquaredDeviations(h, n, s) ==
    IF h = <<>> THEN 0
    ELSE (n * Head(h) - s) * (n * Head(h) - s) + SquaredDeviations(Tail(h), n, s)

\* stdev # 0 and |v - m| / stdev > 3, m a given mean times n / n.
ZAbove3(h, dn) ==
    LET sq == SquaredDeviations(h, Len(h), Sum(h)) IN
    sq # 0 /\ dn * dn * (Len(h) - 1) > 9 * sq

\* With the mean as statistics.mean returns it, a double.
ZAbove3Rounded(h, v) == ZAbove3(h, Len(h) * (v - NearestMean(h)))

Flagged(r) == ~r.is_valid /\ Len(r.warnings) = 1 /\ r.warnings[1].kind = "Anomaly detected"

Gap == Abs(inputs.other - inputs.same)

C7_RoundedMeanDecides ==
    [][(calls' = calls + 1 /\ Len(value_history') >= 10) =>
         IF ZAbove3Rounded(value_history', Last(fed'))
         THEN /\ Flagged(verdict')
              /\ anomaly_failures' = anomaly_failures + 1
              /\ reported' = [reported EXCEPT !["anomaly_detected"] = @ + 1]
         ELSE /\ verdict'.is_valid
              /\ verdict'.warnings = <<>>
              /\ anomaly_failures' = anomaly_failures
              /\ reported' = reported]_vars

C7_Witness ==
    /\ Len(value_history) >= 10
    /\ Flagged(verdict)
    /\ anomaly_failures = 1
    /\ reported["anomaly_detected"] = 1

(***************************************************************************)
(* Properties of the Schema Validator on one record                        *)
(***************************************************************************)
RequiredSet == {REQUIRED_FIELDS[i] : i \in 1..Len(REQUIRED_FIELDS)}

PositionOf(f) == CHOOSE i \in 1..Len(REQUIRED_FIELDS) : REQUIRED_FIELDS[i] = f

WellTyped(e, f) == Has(e, f) /\ IsInstance(e[f], FieldType(f))

\* Every required field before f, in the order of REQUIRED_FIELDS, is
\* present and of its type.
EarlierWellTyped(e, f) ==
    \A i \in 1..(PositionOf(f) - 1) : WellTyped(e, REQUIRED_FIELDS[i])

MissingFields(e) == {f \in RequiredSet : ~Has(e, f)}

SchemaResult == ret.results[1]

\* C8 as stated: a record missing exactly one required field gets
\* overall_valid false and a Schema result whose message cites that field.
C8_MissingOneCited ==
    (Called /\ Cardinality(MissingFields(event)) = 1) =>
        /\ ~ret.overall
        /\ \A f \in MissingFields(event) : Cites(SchemaResult.error_message, f)

\* C8 amended: a record missing a required field gets overall_valid false
\* and an invalid Schema result; the message is "Missing required field"
\* for that field when every required field before it is present and of
\* its type.
C8_FirstMissingCited ==
    Called =>
        \A f \in MissingFields(event) :
            /\ ~ret.overall
            /\ SchemaResult.validator_name = "schema_validator"
            /\ ~SchemaResult.is_valid
            /\ EarlierWellTyped(event, f) =>
                   SchemaResult.error_message = <<Msg("Missing required field", f, "")>>

C8_Witness ==
    /\ Called
    /\ MissingFields(event) = {"session_id"}
    /\ EarlierWellTyped(event, "session_id")
    /\ ~WellTyped(event, "properties")
    /\ event.device = PyStr("smartwatch")
    /\ Cites(SchemaResult.error_message, "session_id")
    /\ ~ret.overall

IntNotPositive(c) == IsInstance(c, "int") /\ c.n <= 0

\* C9 as stated: a record whose user_id is <= 0 is rejected by the Schema
\* Validator with a message mentioning user_id.
C9_UserIdCited ==
    (Called /\ IntNotPositive(event.user_id)) =>
        (~SchemaResult.is_valid /\ Cites(SchemaResult.error_message, "user_id"))

\* C9 amended: a record whose user_id is <= 0 is rejected by the Schema
\* Validator; the message is "user_id must be positive" exactly when the
\* record with a positive user_id in its place passes every check, and
\* otherwise the message is that of the earlier failing check.
C9_UserIdRejected ==
    (Called /\ IntNotPositive(event.user_id)) =>
        /\ ~SchemaResult.is_valid
        /\ ~ret.overall
        /\ IF EventSchemaValidate([event EXCEPT !.user_id = PyInt(1)]).ok
           THEN SchemaResult.error_message = <<Msg("user_id must be positive", "user_id", "")>>
           ELSE SchemaResult.error_message =
                    EventSchemaValidate([event EXCEPT !.user_id = PyInt(1)]).error

C9_Witness ==
    /\ Called
    /\ event.user_id = PyInt(0)
    /\ Has(event, "source")
    /\ SchemaResult.error_message = <<Msg("user_id must be positive", "user_id", "")>>

\* The checks in the stated order: 1..8 are (a) for each required field,
\* then (b) event_type, (c) device, (d) geo_location, (e) source,
\* (f) timestamp and (g) user_id.
NumChecks == Len(REQUIRED_FIELDS) + 6

CheckField(k) ==
    IF k <= Len(REQUIRED_FIELDS) THEN REQUIRED_FIELDS[k]
    ELSE <<"event_type", "device", "geo_location", "source", "timestamp",
           "user_id">>[k - Len(REQUIRED_FIELDS)]

CheckKind(e, k) ==
    IF k <= Len(REQUIRED_FIELDS)
    THEN (IF Has(e, REQUIRED_FIELDS[k]) THEN "Invalid type" ELSE "Missing required field")
    ELSE <<"Invalid event_type", "Invalid device", "Invalid geo_location format",
           "Invalid source", "Invalid timestamp format",
           "user_id must be positive">>[k - Len(REQUIRED_FIELDS)]

\* Whether record e violates check k, each check taken on its own.
Violates(e, k) ==
    CASE k <= Len(REQUIRED_FIELDS) -> ~WellTyped(e, REQUIRED_FIELDS[k])
      [] CheckField(k) = "event_type" ->
             ~(e.event_type.t = "str" /\ e.event_type.s \in VALID_EVENT_TYPES)
      [] CheckField(k) = "device" ->
             ~(e.device.t = "str" /\ e.device.s \in VALID_DEVICE_TYPES)
      [] CheckField(k) = "geo_location" ->
             ~(e.geo_location.t = "str" /\ ContainsDash(e.geo_location.s))
      [] CheckField(k) = "source" ->
             Has(e, "source") /\ ~(e.source.t = "str" /\ e.source.s \in VALID_SOURCES)
      [] CheckField(k) = "timestamp" ->
             ~(e.timestamp.t = "str" /\ FromIsoFormat(ReplaceZ(e.timestamp.s)))
      [] OTHER -> ~(IsInstance(e.user_id, "int") /\ e.user_id.n > 0)

Violations(e) == {k \in 1..NumChecks : Violates(e, k)}

Earliest(S) == CHOOSE k \in S : \A j \in S : k <= j

\* C10: the Schema result is valid with no message exactly when the record
\* violates no check; otherwise it is invalid with the one message of the
\* earliest violated check in the order (a) to (g); it never has warnings.
C10_EarliestCheckReported ==
    Called =>
        /\ SchemaResult.validator_name = "schema_validator"
        /\ SchemaResult.warnings = <<>>
        /\ IF Violations(event) = {}
           THEN SchemaResult.is_valid /\ SchemaResult.error_message = <<>>
           ELSE /\ ~SchemaResult.is_valid
                /\ Len(SchemaResult.error_message) = 1
                /\ SchemaResult.error_message[1].field =
                       CheckField(Earliest(Violations(event)))
                /\ SchemaResult.error_message[1].kind =
                       CheckKind(event, Earliest(Violations(event)))

C10_Witness ==
    /\ Called
    /\ Violations(event) = {9, 10, 11, 13, 14}
    /\ SchemaResult.error_message[1].kind = "Invalid event_type"

(***************************************************************************)
(* Properties of the Range and Nullability validators called on their own  *)
(***************************************************************************)
RangeNames == {"user_id", "price", "quantity", "discount"}

Numeric(c) == c.t \in {"int", "bool", "float"}

\* min <= value <= max by the table of bounds, for the numbers of the
\* model: ints (none above the user_id maximum) and doubles at 999999.99
\* and just above it.
WithinBounds(f, c) ==
    CASE c.t = "float" -> f = "user_id" \/ (f = "price" /\ c.n <= 0)
      [] f = "user_id" -> 1 <= c.n
      [] f = "price" -> 1 <= c.n /\ c.n <= 999999
      [] f = "quantity" -> 1 <= c.n /\ c.n <= 1000
      [] OTHER -> 0 <= c.n /\ c.n <= 100

TopViolations(e) == {f \in RangeNames : Numeric(e[f]) /\ ~WithinBounds(f, e[f])}

PropViolations(e) ==
    IF e.properties.t = "dict"
    THEN {f \in RangeNames : Numeric(e.props[f]) /\ ~WithinBounds(f, e.props[f])}
    ELSE {}

\* The fields named by the warnings of result r that begin with wording.
WarnedFields(r, wording) ==
    {r.warnings[i].field : i \in {j \in 1..Len(r.warnings) : r.warnings[j].kind = wording}}

RangeCalled == Called /\ verdict.validator_name = "range_validator"

\* C11: the Range result has exactly one warning for every numeric
\* user_id, price, quantity or discount outside its inclusive bounds, at top
\* level and in properties, none for other fields or values that are no
\* numbers, and is valid exactly when it has no warning.
C11_OneWarningPerViolation ==
    RangeCalled =>
        /\ WarnedFields(verdict, "Field out of range") = TopViolations(event)
        /\ WarnedFields(verdict, "Property out of range") = PropViolations(event)
        /\ Len(verdict.warnings) =
               Cardinality(TopViolations(event)) + Cardinality(PropViolations(event))
        /\ verdict.is_valid <=> verdict.warnings = <<>>
        /\ verdict.error_message = <<>>

C11_Witness ==
    /\ RangeCalled
    /\ calls = 1
    /\ event.quantity = PyNone
    /\ event.discount = PyInt(0)
    /\ event.props.price = PyStr("free")
    /\ Cardinality(TopViolations(event)) = 2
    /\ Cardinality(PropViolations(event)) = 3
    /\ Len(verdict.warnings) = 5
    /\ ~verdict.is_valid

WarningSet(r) == {r.warnings[i] : i \in 1..Len(r.warnings)}

NullNames == {"event_id", "event_type", "user_id", "timestamp", "device", "geo_location"}

\* Missing, null, or a string that is empty once trimmed ("" and " " are the
\* blank strings of the model).
NullViolating(e) ==
    {f \in NullNames :
        \/ e[f].t = "absent"
        \/ e[f].t = "NoneType"
        \/ (e[f].t = "str" /\ e[f].s \in {"", " "})}

NullCalled == Called /\ verdict.validator_name = "nullability_validator"

ListPosition(L, f) == CHOOSE i \in 1..Len(L) : L[i] = f

\* C13: the Nullability result holds exactly one error per violating field
\* among the six, in the order of the list, worded "Missing required field"
\* for a missing field and "Required field is null/empty" for a null or
\* blank one; it is valid, with no message, exactly when no field violates.
C13_OneErrorPerViolation ==
    NullCalled =>
        LET errors == verdict.error_message IN
        /\ Len(errors) = Cardinality(NullViolating(event))
        /\ {errors[i].field : i \in 1..Len(errors)} = NullViolating(event)
        /\ \A i \in 1..Len(errors) :
               errors[i].kind = IF event[errors[i].field].t = "absent"
                                THEN "Missing required field"
                                ELSE "Required field is null/empty"
        /\ \A i, j \in 1..Len(errors) :
               i < j => ListPosition(REQUIRED_NON_NULL, errors[i].field)
                            < ListPosition(REQUIRED_NON_NULL, errors[j].field)
        /\ verdict.is_valid <=> NullViolating(event) = {}
        /\ verdict.warnings = <<>>

C13_Witness ==
    /\ NullCalled
    /\ calls = 1
    /\ event.event_id = PyStr(" ")
    /\ event.event_type = Absent
    /\ event.user_id = PyInt(0)
    /\ event.timestamp = PyNone
    /\ event.geo_location = PyList
    /\ Len(verdict.error_message) = 3
    /\ ~verdict.is_valid

\* C14: a Nullability Validator call makes as many null_value reports as it
\* collects errors, for missing fields as for null or blank ones.
C14_ReportPerError ==
    (NullCalled /\ calls = 1) => reported["null_value"] = Len(verdict.error_message)

\* C15: a Range Validator call makes one out_of_range report per top-level
\* field out of range and none for a property out of range, which still
\* gets its warning.
C15_TopLevelReports ==
    RangeCalled =>
        /\ reported["out_of_range"] = calls * Cardinality(TopViolations(event))
        /\ \A r \in Reasons \ {"out_of_range"} : reported[r] = 0
        /\ PropViolations(event) \subseteq WarnedFields(verdict, "Property out of range")

C15_Witness ==
    /\ RangeCalled
    /\ calls = 1
    /\ TopViolations(event) = {"discount"}
    /\ PropViolations(event) = {"price", "discount"}
    /\ Len(verdict.warnings) = 3
    /\ reported["out_of_range"] = 1

(***************************************************************************)
(* Properties of the engine when the metrics sink raises                   *)
(***************************************************************************)
\* C16: a call during which record_validation_failure raises is not
\* aborted: no exception leaves validate and the call returns its verdict,
\* the schema result first.
C16_SinkCannotAbort ==
    Called =>
        /\ ~raised
        /\ ret # NoRet
        /\ ret.results[1].validator_name = "schema_validator"

(***************************************************************************)
(* Properties of validate calls running at the same time                   *)
(***************************************************************************)
AllDone == \A t \in Threads : threads[t].pc = "done"

\* What detect returns when nothing runs between its append and its reads:
\* the result computed from the window as the caller's own append left it.
AtomicVerdict(fr) ==
    IF TooFewSamples(fr.after) THEN InsufficientResult
    ELSE Score(fr.after, "price", fr.event.props.price.n).result

\* C17: a detect call running beside others reads the window as its own
\* append left it, so its result is the one computed from that window.
C17_ReadsOwnAppend ==
    \A t \in Threads :
        (threads[t].pc = "done" /\ Len(threads[t].results) = 4) =>
            threads[t].results[4] = AtomicVerdict(threads[t])

FailedSchema == {t \in Threads : SchemaFails(threads[t].event)}

FailedRange ==
    {t \in Threads \ FailedSchema :
        ~RangeValidatorValidate(threads[t].event).result.is_valid}

FailedNull ==
    {t \in Threads \ FailedSchema :
        ~NullabilityValidatorValidate(threads[t].event).result.is_valid}

\* C18: once the concurrent calls have finished, the failure counters of
\* the Schema, Range and Nullability validators are what the same calls
\* give when run one after another.
C18_CountersAsSerial ==
    AllDone =>
        /\ schema_failures = Cardinality(FailedSchema)
        /\ range_failures = Cardinality(FailedRange)
        /\ null_failures = Cardinality(FailedNull)

\* C19 as stated: once the concurrent calls have finished, the retained
\* sequence is the result sequence of one of them.
C19_RetainedIsSomeCall ==
    AllDone => \E t \in Threads : validation_results = threads[t].results

\* C19 amended: the retained sequence changes only when a call that passed
\* schema finishes, and then it is that call's whole result sequence; a call
\* rejected by schema leaves it as it was; every call returns the results
\* of its own record: Schema alone when schema failed, else Schema, Range,
\* Nullability and the anomaly result of its price.
C19_LastWriterWins ==
    [][/\ \A t \in Threads :
            (threads[t].pc # "done" /\ threads'[t].pc = "done") =>
                LET fr == threads'[t] IN
                /\ fr.results[1] = SchemaValidatorValidate(fr.event).result
                /\ IF SchemaFails(fr.event)
                   THEN /\ Len(fr.results) = 1
                        /\ ~fr.overall
                        /\ validation_results' = validation_results
                   ELSE /\ Len(fr.results) = IF HasNumericPrice(fr.event) THEN 4 ELSE 3
                        /\ fr.results[2] = RangeValidatorValidate(fr.event).result
                        /\ fr.results[3] = NullabilityValidatorValidate(fr.event).result
                        /\ Len(fr.results) = 4 =>
                               fr.results[4].validator_name = "anomaly_detector"
                        /\ validation_results' = fr.results
       /\ (calls' = calls /\ \A t \in Threads : threads'[t].pc = "done" => threads[t].pc = "done")
              => validation_results' = validation_results]_vars

C19_Witness ==
    /\ AllDone
    /\ FailedSchema = {}
    /\ validation_results = threads["t1"].results
    /\ validation_results # threads["t2"].results
    /\ threads["t2"].overall
    /\ ~threads["t1"].overall

(***************************************************************************)
(* Properties of get_summary                                               *)
(***************************************************************************)
\* C20: get_summary returns, for the retained results R, total_validations
\* = length of R, passed = number of valid results of R, warnings = number
\* of warning strings over R and validators = the names of R in order; so
\* passed <= total_validations, and before any validation all counts are 0.
C20_SummaryOfRetained ==
    [][summary' # summary =>
         LET R == validation_results
             got == summary'[1]
         IN /\ validation_results' = R
            /\ Len(summary') = 1
            /\ got.total_validations = Len(R)
            /\ got.passed = Cardinality({i \in 1..Len(R) : R[i].is_valid})
            /\ got.warnings =
                   Cardinality({p \in (1..Len(R)) \X (1..4) : p[2] <= Len(R[p[1]].warnings)})
            /\ got.validators = Names(R)
            /\ got.passed <= got.total_validations
            /\ calls = 0 => (got.total_validations = 0 /\ got.passed = 0
                              /\ got.warnings = 0 /\ got.validators = <<>>)]_vars

C20_Witness ==
    /\ summary # <<>>
    /\ summary[1].total_validations = 4
    /\ summary[1].passed = 2
    /\ summary[1].warnings = 2
    /\ summary[1].validators[4] = "anomaly_detector"
    /\ calls > WarmupCalls

(***************************************************************************)
(* Properties of the retained results                                      *)
(***************************************************************************)
ValidateCalled == calls' = calls + 1

\* C21: a validate call rejected by the Schema Validator returns the failed
\* Schema result alone and leaves the retained sequence as it was; a call
\* that passes schema retains its own result sequence; so the retained
\* sequence is empty or the 3 or 4 results of the last schema-passing call,
\* headed by a valid Schema result, and get_summary reports
\* total_validations 0, 3 or 4, with 0 exactly when no call passed schema.
C21_RejectedLeavesRetained ==
    [][/\ (ValidateCalled /\ SchemaFails(event')) =>
              /\ validation_results' = validation_results
              /\ Len(ret'.results) = 1
              /\ ~ret'.results[1].is_valid
       /\ (ValidateCalled /\ ~SchemaFails(event')) =>
              validation_results' = ret'.results
       /\ LET R == validation_results' IN
          /\ Len(R) \in {0, 3, 4}
          /\ (Len(R) = 0) = (schema_failures' = calls')
          /\ Len(R) > 0 =>
                 /\ R[1].validator_name = "schema_validator"
                 /\ R[1].is_valid
                 /\ \A i \in 2..Len(R) : R[i].validator_name # "schema_validator"
       /\ summary' # summary =>
              /\ summary'[1].total_validations = Len(validation_results)
              /\ summary'[1].total_validations \in {0, 3, 4}
              /\ summary'[1].total_validations > 0 =>
                     /\ summary'[1].passed >= 1
                     /\ SubSeq(summary'[1].validators, 1, 3) =
                            <<"schema_validator", "range_validator",
                              "nullability_validator">>]_vars

C21_Witness ==
    /\ calls >= 2
    /\ SchemaFails(event)
    /\ Len(ret.results) = 1
    /\ Len(validation_results) = 4
    /\ summary # <<>>
    /\ summary[1].total_validations = 4
    /\ summary[1].validators[1] = "schema_validator"

(***************************************************************************)
(* Properties of the schema gate in front of the Nullability Validator     *)
(***************************************************************************)
PassedSchema == Called /\ Len(ret.results) >= 3 /\ ret.results[1].is_valid

BlankEventId == event.event_id.t = "str" /\ event.event_id.s \in {"", " "}

TenSamples == Called /\ Len(value_history) = 10

\* The sample standard deviation of h is at least k units in the last place.
SpreadAtLeast(h, k) ==
    SquaredDeviations(h, Len(h), Sum(h)) >= k * k * Len(h) * Len(h) * (Len(h) - 1)

\* C23 as stated: a detect call that leaves exactly 10 samples in the
\* window never returns is_valid false, whatever the ten values are.
C23_TenNeverFlagged == TenSamples => verdict.is_valid

\* C23 amended: a detect call that leaves exactly 10 samples in the window,
\* their sample standard deviation at least 4 units in the last place,
\* returns is_valid true without warnings and counts no anomaly.
C23_TenSpreadNeverFlagged ==
    (TenSamples /\ SpreadAtLeast(value_history, 4)) =>
        /\ verdict.is_valid
        /\ verdict.warnings = <<>>
        /\ anomaly_failures = 0
        /\ reported["anomaly_detected"] = 0

C23_Witness ==
    /\ TenSamples
    /\ SpreadAtLeast(value_history, 4)
    /\ \A i \in 1..9 : fed[i] = 0
    /\ fed[10] = FarGap
    /\ verdict.is_valid
    /\ verdict.warnings = <<>>

(***************************************************************************)
(* Properties of the anomaly window of the orchestrator                    *)
(***************************************************************************)
\* The record is a dict of properties holding an int, bool or float price.
NumericPrice(e) ==
    e.properties.t = "dict" /\ e.props.price.t \in {"int", "bool", "float"}

\* The window w once p is appended to it, the oldest value leaving a full one.
Appended(w, p) ==
    IF Len(w) < window_size THEN Append(w, p) ELSE Tail(Append(w, p))

\* C24: a validate call whose record passes schema and holds a numeric
\* properties.price appends that price to the anomaly window exactly once,
\* whatever the overall verdict and the range result are; any other
\* validate call leaves the window as it was.
C24_PriceAppendedOnce ==
    [][ValidateCalled =>
         IF ~SchemaFails(event') /\ NumericPrice(event')
         THEN /\ value_history' = Appended(value_history, event'.props.price.n)
              /\ fed' = Append(fed, event'.props.price.n)
              /\ Len(ret'.results) = 4
         ELSE /\ value_history' = value_history
              /\ fed' = fed
              /\ Len(ret'.results) \in {1, 3}]_vars

C24_Witness ==
    /\ calls = WarmupCalls + 2
    /\ ~ret.overall
    /\ event.event_id = PyStr(" ")
    /\ event.props.price = PyFloat(FarGap)
    /\ ret.results[2].warnings # <<>>
    /\ Len(value_history) = WarmupCalls + 1
    /\ Last(value_history) = FarGap
    /\ schema_failures = 1

(***************************************************************************)
(* Properties of the producer's counters                                   *)
(***************************************************************************)
Outcomes(m) == m.events_sent + m.events_failed + m.schema_validation_failures

\* C25: every send_event call changes exactly one outcome counter by one:
\* events_sent when it returns True, schema_validation_failures when the
\* event fails schema validation (nothing is then handed to the Kafka
\* client), events_failed when the send fails; so the three counters add up
\* to the number of completed calls.
C25_OneCounterPerCall ==
    [][/\ Outcomes(metrics') = calls'
       /\ calls' = calls + 1 =>
              /\ Outcomes(metrics') = Outcomes(metrics) + 1
              /\ producer'.returned =>
                     metrics'.events_sent = metrics.events_sent + 1
              /\ producer'.outcome = "rejected" =>
                     /\ metrics'.schema_validation_failures =
                            metrics.schema_validation_failures + 1
                     /\ producer'.handed = producer.handed
              /\ producer'.outcome \in {"failed", "raised", "timeout"} =>
                     metrics'.events_failed = metrics.events_failed + 1]_vars

====
